---- MODULE Spec2Model ----
(***************************************************************************)
(* rrvideo: one run of transformToVideo (src/src/index.ts).                *)
(*                                                                         *)
(* The Node side is the RRvideo object (constructor, init, startRecording, *)
(* the capture timer, the three encoder handlers, finishRecording,         *)
(* getConsoleMsg) and the promise wrapper of transformToVideo.  The page   *)
(* side is the script getHtml injects.  Calls of the exposed functions and *)
(* console messages travel from the page to Node as messages in flight.    *)
(*                                                                         *)
(* JavaScript values: an optional field is a set with at most one element  *)
(* ({} is undefined); a string is a sequence of tokens (<<>> is "").       *)
(***************************************************************************)
EXTENDS Integers, Sequences, FiniteSets, TLC

\* ------------------------------------------------------------------ bounds
\* Frames the model lets the capture loop write before it stops capturing.
MaxFrames == 2
\* Failed screenshot captures the model counts.
MaxMisses == 2
\* Milliseconds the page clock advances per step.
ClockStep == 500

\* ------------------------------------------------------- JavaScript values
ValueOf(o) == CHOOSE v \in o : TRUE

\* Truthiness of an optional number, boolean, string, object (for x || d).
TruthyNum(o) == o # {} /\ ValueOf(o) # 0
TruthyBool(o) == o # {} /\ ValueOf(o)
TruthyStr(o) == o # {} /\ ValueOf(o) # <<>>
TruthyObj(o) == o # {}

\* Error values.  null is NullError; a console text is a plain string.
NullError == [kind |-> "null", text |-> <<>>]
ErrorOf(kind) == [kind |-> kind, text |-> <<>>]
StringError(text) == [kind |-> "string", text |-> text]
TruthyError(e) == e.kind # "null" /\ (e.kind = "string" => e.text # <<>>)

\* ------------------------------------------------------------------- paths
\* A path is its sequence of segments; an absolute path starts with "/".
Cwd == <<"/", "work">>

IsAbsolute(p) == Len(p) > 0 /\ p[1] = "/"

RECURSIVE Normalize(_, _)
\* Append the segments of rest to acc, "." dropped and ".." popping a segment.
Normalize(acc, rest) ==
  IF rest = <<>> THEN acc
  ELSE LET s == Head(rest) IN
       IF s = "." THEN Normalize(acc, Tail(rest))
       ELSE IF s = ".."
            THEN Normalize(IF Len(acc) > 1 THEN SubSeq(acc, 1, Len(acc) - 1) ELSE acc,
                           Tail(rest))
            ELSE Normalize(Append(acc, s), Tail(rest))

\* path.resolve(from, to)
PathResolve(from, to) ==
  IF IsAbsolute(to) THEN Normalize(<<"/">>, Tail(to)) ELSE Normalize(from, to)

\* outputPath of startRecording
OutputPath(output) == IF IsAbsolute(output) THEN output ELSE PathResolve(Cwd, output)

\* ----------------------------------------------------------- configuration
EmptyProps == [autoPlay |-> {}, startDelayTime |-> {}, width |-> {}, height |-> {}]

defaultConfig ==
  [fps |-> 15, headless |-> TRUE, input |-> <<>>,
   output |-> <<"rrvideo-output.mp4">>, rrwebPlayer |-> EmptyProps]

\* this.config as the constructor builds it from the caller's partial config.
Constructor(c) ==
  [fps |-> IF TruthyNum(c.fps) THEN ValueOf(c.fps) ELSE defaultConfig.fps,
   headless |-> IF TruthyBool(c.headless) THEN ValueOf(c.headless)
                ELSE defaultConfig.headless,
   input |-> IF TruthyStr(c.input) THEN ValueOf(c.input) ELSE defaultConfig.input,
   output |-> IF TruthyStr(c.output) THEN ValueOf(c.output) ELSE defaultConfig.output,
   rrwebPlayer |-> IF TruthyObj(c.rrwebPlayer) THEN ValueOf(c.rrwebPlayer)
                   ELSE defaultConfig.rrwebPlayer]

\* The caller configurations the runs start from.
BaseUser ==
  [fps |-> {}, headless |-> {}, input |-> {<<"trace.json">>}, output |-> {},
   rrwebPlayer |-> {}]

UserConfigs ==
  { BaseUser,
    [BaseUser EXCEPT !.fps = {10}, !.headless = {TRUE}, !.output = {<<"out.mp4">>},
                     !.rrwebPlayer = {EmptyProps}],
    [BaseUser EXCEPT !.headless = {FALSE}, !.output = {<<"/", "tmp", "out.mp4">>},
                     !.rrwebPlayer = {[EmptyProps EXCEPT !.autoPlay = {TRUE}]}],
    [BaseUser EXCEPT !.fps = {0}, !.output = {<<>>},
                     !.rrwebPlayer = {[EmptyProps EXCEPT !.startDelayTime = {0}]}],
    [BaseUser EXCEPT !.output = {<<"..", "out.mp4">>},
                     !.rrwebPlayer = {[EmptyProps EXCEPT !.startDelayTime = {500},
                                                         !.width = {800},
                                                         !.height = {600}]}] }

\* ---------------------------------------------------------- console texts
Marker == <<"Replayer Uncaught Error:">>

RECURSIVE IndexFrom(_, _, _)
\* First position >= i at which sub occurs in text, counted from 0; -1 if none.
IndexFrom(text, sub, i) ==
  IF i + Len(sub) > Len(text) THEN -1
  ELSE IF SubSeq(text, i + 1, i + Len(sub)) = sub THEN i
       ELSE IndexFrom(text, sub, i + 1)

\* String.prototype.indexOf
IndexOf(text, sub) == IndexFrom(text, sub, 0)

\* A console message: its type() and its text().
Msg(type, text) == [type |-> type, text |-> text]

\* The one message the page script prints in its catch: the marker and e.message.
MarkerMsg == Msg("error", Marker \o <<"boom">>)

\* Messages the page may print otherwise.
OtherMsgs ==
  { Msg("log", Marker \o <<"logged">>),
    Msg("error", <<"boom">> \o Marker),
    Msg("error", <<"boom">>),
    Msg("warning", <<>>) }

\* ------------------------------------------------------------------- state
VARIABLES
  userConfig,    \* the caller's partial config given to transformToVideo
  config,        \* this.config
  promise,       \* the promise transformToVideo returned
  cbCalls,       \* the calls of config.cb so far, in order
  state,         \* this.state
  processError,  \* this.processError
  browser,       \* this.browser: "none", "open", "closing", "closed"
  closeCalls,    \* calls of browser.close()
  initPc,        \* where init() is
  pagePc,        \* where the injected script is
  elapsed,       \* ms on the page clock since the script set its timeout
  startedAt,     \* page clock when window.onReplayStart was called, -1 before
  channel,       \* bridge calls and console events on their way to Node
  srPc,          \* where startRecording() is
  ffmpeg,        \* the encoder process: "none", "running"
  fired,         \* encoder events emitted so far
  timer,         \* the setInterval timer: "none", "active", "cleared"
  inflight,      \* screenshots being awaited
  frames,        \* buffers written to ffmpeg stdin
  stdinEnds,     \* calls of ffmpegProcess.stdin.end()
  wroteAfterEnd, \* a buffer was written after stdin.end()
  misses         \* screenshots that threw and were ignored

nodeVars == <<userConfig, config, promise, cbCalls, state, processError, browser,
              closeCalls, initPc>>
pageVars == <<pagePc, elapsed, startedAt, channel>>
recVars == <<srPc, ffmpeg, fired, timer, inflight, frames, stdinEnds, wroteAfterEnd, misses>>
vars == <<nodeVars, pageVars, recVars>>

Pending == [status |-> "pending", file |-> <<>>, error |-> NullError]

Init ==
  /\ userConfig \in UserConfigs
  /\ config = Constructor(userConfig)
  /\ promise = Pending
  /\ cbCalls = <<>>
  /\ state = "idle"
  /\ processError = NullError
  /\ browser = "none"
  /\ closeCalls = 0
  /\ initPc = "launch"
  /\ pagePc = "none"
  /\ elapsed = 0
  /\ startedAt = -1
  /\ channel = {}
  /\ srPc = "none"
  /\ ffmpeg = "none"
  /\ fired = {}
  /\ timer = "none"
  /\ inflight = 0
  /\ frames = 0
  /\ stdinEnds = 0
  /\ wroteAfterEnd = FALSE
  /\ misses = 0

\* ------------------------------------------------- the callback and promise
\* A promise that a later resolve or reject would settle again.
SettleOverwrite(p, file, error) ==
  IF TruthyError(error)
  THEN [status |-> "rejected", file |-> <<>>, error |-> error]
  ELSE [status |-> "resolved", file |-> file, error |-> NullError]

\* resolve/reject of the promise: the cb transformToVideo passes to RRvideo.
Settle(p, file, error) ==
  IF p.status # "pending" THEN p
  ELSE IF TruthyError(error)
       THEN [status |-> "rejected", file |-> <<>>, error |-> error]
       ELSE [status |-> "resolved", file |-> file, error |-> NullError]

\* this.config.cb(file, error)
CallCb(file, error) ==
  /\ cbCalls' = Append(cbCalls, [file |-> file, error |-> error])
  /\ promise' = Settle(promise, file, error)

\* ---------------------------------------------------------------- init()
\* The catch of init.
InitCatch(kind) ==
  /\ initPc' = "failed"
  /\ CallCb(<<>>, ErrorOf(kind))

\* await puppeteer.launch(...)
Launch ==
  /\ initPc = "launch"
  /\ \/ /\ browser' = "open"
        /\ initPc' = "page"
        /\ UNCHANGED <<cbCalls, promise>>
     \/ /\ InitCatch("LaunchError")
        /\ UNCHANGED browser
  /\ UNCHANGED <<userConfig, config, state, processError, closeCalls>>
  /\ UNCHANGED <<pageVars, recVars>>

\* newPage, goto, page.on('console'), the two exposeFunction calls.
PageSetup ==
  /\ initPc = "page"
  /\ \/ /\ initPc' = "read"
        /\ UNCHANGED <<cbCalls, promise>>
     \/ InitCatch("PageError")
  /\ UNCHANGED <<userConfig, config, state, processError, browser, closeCalls>>
  /\ UNCHANGED <<pageVars, recVars>>

\* An init that hands the page its content before the trace is read and parsed.
ReadTraceLate ==
  /\ initPc = "read"
  /\ pagePc' = "construct"
  /\ \/ /\ initPc' = "loading"
        /\ UNCHANGED <<cbCalls, promise>>
     \/ \E kind \in {"ENOENT", "SyntaxError"} : InitCatch(kind)
  /\ UNCHANGED <<userConfig, config, state, processError, browser, closeCalls>>
  /\ UNCHANGED <<elapsed, startedAt, channel>>
  /\ UNCHANGED recVars

\* readFileSync and JSON.parse of the trace, then the call of page.setContent.
ReadTrace ==
  /\ initPc = "read"
  /\ \/ /\ initPc' = "loading"
        /\ pagePc' = "construct"
        /\ UNCHANGED <<cbCalls, promise>>
     \/ /\ \E kind \in {"ENOENT", "SyntaxError"} : InitCatch(kind)
        /\ UNCHANGED pagePc
  /\ UNCHANGED <<userConfig, config, state, processError, browser, closeCalls>>
  /\ UNCHANGED <<elapsed, startedAt, channel>>
  /\ UNCHANGED recVars

\* The synchronous part of the inline script has run to its end.
ScriptRan == pagePc \notin {"none", "construct", "start"}

\* await page.setContent(...) settles: the load event after the inline script
\* has run, or a rejection (a timeout of the load, or the target closed).
SetContentSettle ==
  /\ initPc = "loading"
  /\ \/ /\ ScriptRan
        /\ initPc' = "done"
        /\ UNCHANGED <<cbCalls, promise>>
     \/ /\ ScriptRan \/ browser # "open"
        /\ InitCatch("ContentError")
  /\ UNCHANGED <<userConfig, config, state, processError, browser, closeCalls>>
  /\ UNCHANGED <<pageVars, recVars>>

\* ------------------------------------------------- the injected page script
\* let time = userConfig.startDelayTime || 1000
StartDelay(props) ==
  IF TruthyNum(props.startDelayTime) THEN ValueOf(props.startDelayTime) ELSE 1000

PageAlive == browser \in {"open", "closing"}

\* new rrwebPlayer(...), addEventListener('finish', ...), let time = ...
\* A throw is caught by the script's catch, which prints the marker message.
PageConstruct ==
  /\ PageAlive
  /\ pagePc = "construct"
  /\ \/ /\ pagePc' = "start"
        /\ UNCHANGED channel
     \/ /\ pagePc' = "end"
        /\ channel' = channel \cup {"console"}
  /\ UNCHANGED <<elapsed, startedAt>>
  /\ UNCHANGED <<nodeVars, recVars>>

\* start(() => { window.onReplayStart(); window.replayer.play(); }):
\* with autoPlay the function runs at once, inside the try; otherwise the
\* timeout is set.
PageStart ==
  /\ PageAlive
  /\ pagePc = "start"
  /\ IF TruthyBool(config.rrwebPlayer.autoPlay)
     THEN /\ startedAt' = elapsed
          /\ \/ /\ pagePc' = "playing"
                /\ channel' = channel \cup {"start"}
             \/ /\ pagePc' = "end"
                /\ channel' = channel \cup {"start", "console"}
     ELSE /\ pagePc' = "delay"
          /\ UNCHANGED <<startedAt, channel>>
  /\ UNCHANGED elapsed
  /\ UNCHANGED <<nodeVars, recVars>>

\* Time passes while the timeout is pending and not yet due.
ClockAdvance ==
  /\ PageAlive
  /\ pagePc = "delay"
  /\ elapsed < StartDelay(config.rrwebPlayer)
  /\ elapsed' = elapsed + ClockStep
  /\ UNCHANGED <<pagePc, startedAt, channel>>
  /\ UNCHANGED <<nodeVars, recVars>>

\* The timeout fires: fn() runs outside the try, a throw of play() is uncaught.
PageTimeout ==
  /\ PageAlive
  /\ pagePc = "delay"
  /\ elapsed >= StartDelay(config.rrwebPlayer)
  /\ startedAt' = elapsed
  /\ channel' = channel \cup {"start"}
  /\ pagePc' \in {"playing", "end"}
  /\ UNCHANGED elapsed
  /\ UNCHANGED <<nodeVars, recVars>>

\* The replayer emits 'finish': the listener calls window.onReplayFinish().
PageFinish ==
  /\ PageAlive
  /\ pagePc = "playing"
  /\ pagePc' = "finished"
  /\ channel' = channel \cup {"finish"}
  /\ UNCHANGED <<elapsed, startedAt>>
  /\ UNCHANGED <<nodeVars, recVars>>

\* ------------------------------------------- finishRecording, getConsoleMsg
\* finishRecording(): this.state = "closed"; await this.browser.close()
FinishRecording ==
  /\ state' = "closed"
  /\ closeCalls' = closeCalls + 1
  /\ browser' = IF browser = "open" THEN "closing" ELSE browser

\* A test that accepts the marker anywhere in the text.
IsReplayerErrorAnywhere(m) == m.type = "error" /\ IndexOf(m.text, Marker) >= 0

\* The test of getConsoleMsg's loop body.
IsReplayerError(m) == m.type = "error" /\ IndexOf(m.text, Marker) = 0

RECURSIVE SettleAll(_, _)
\* The promise after the cb calls of a sequence, in order.
SettleAll(p, calls) ==
  IF calls = <<>> THEN p
  ELSE SettleAll(Settle(p, Head(calls).file, Head(calls).error), Tail(calls))

\* A getConsoleMsg that finishes the recording only when one is under way.
GetConsoleMsgIfRecording(msg) ==
  LET hits == SelectSeq(msg, IsReplayerError)
      calls == [i \in 1..Len(hits) |->
                  [file |-> <<>>, error |-> StringError(hits[i].text)]]
  IN IF hits = <<>>
     THEN UNCHANGED <<state, closeCalls, browser, processError, cbCalls, promise>>
     ELSE /\ IF state = "recording"
             THEN /\ state' = "closed"
                  /\ closeCalls' = closeCalls + Len(hits)
                  /\ browser' = IF browser = "open" THEN "closing" ELSE browser
             ELSE UNCHANGED <<state, closeCalls, browser>>
          /\ processError' = NullError
          /\ cbCalls' = cbCalls \o calls
          /\ promise' = SettleAll(promise, calls)

\* getConsoleMsg(msg): for each matching message finishRecording(),
\* this.processError = null, this.config.cb("", text).
GetConsoleMsg(msg) ==
  LET hits == SelectSeq(msg, IsReplayerError)
      calls == [i \in 1..Len(hits) |->
                  [file |-> <<>>, error |-> StringError(hits[i].text)]]
  IN IF hits = <<>>
     THEN UNCHANGED <<state, closeCalls, browser, processError, cbCalls, promise>>
     ELSE /\ state' = "closed"
          /\ closeCalls' = closeCalls + Len(hits)
          /\ browser' = IF browser = "open" THEN "closing" ELSE browser
          /\ processError' = NullError
          /\ cbCalls' = cbCalls \o calls
          /\ promise' = SettleAll(promise, calls)

\* The exposed onReplayFinish is called.
DeliverFinish ==
  /\ PageAlive
  /\ "finish" \in channel
  /\ channel' = channel \ {"finish"}
  /\ FinishRecording
  /\ UNCHANGED <<userConfig, config, promise, cbCalls, processError, initPc>>
  /\ UNCHANGED <<pagePc, elapsed, startedAt>>
  /\ UNCHANGED recVars

\* The 'console' event of the marker message the script printed.
DeliverConsole ==
  /\ PageAlive
  /\ "console" \in channel
  /\ channel' = channel \ {"console"}
  /\ GetConsoleMsg(<<MarkerMsg>>)
  /\ UNCHANGED <<userConfig, config, initPc>>
  /\ UNCHANGED <<pagePc, elapsed, startedAt>>
  /\ UNCHANGED recVars

\* The 'console' event of any other message of the page.
ConsoleOther ==
  /\ PageAlive
  /\ pagePc # "none"
  /\ \E m \in OtherMsgs : GetConsoleMsg(<<m>>)
  /\ UNCHANGED <<userConfig, config, initPc>>
  /\ UNCHANGED pageVars
  /\ UNCHANGED recVars

\* browser.close() completes: the page is gone and with it what it had sent.
BrowserClosed ==
  /\ browser = "closing"
  /\ browser' = "closed"
  /\ channel' = {}
  /\ UNCHANGED <<userConfig, config, promise, cbCalls, state, processError,
                 closeCalls, initPc>>
  /\ UNCHANGED <<pagePc, elapsed, startedAt>>
  /\ UNCHANGED recVars

\* -------------------------------------------------------- startRecording()
\* The exposed onReplayStart is called: this.state = "recording", then
\* await this.page.$(wrapperSelector).
DeliverStart ==
  /\ PageAlive
  /\ "start" \in channel
  /\ channel' = channel \ {"start"}
  /\ state' = "recording"
  /\ srPc' = "query"
  /\ UNCHANGED <<userConfig, config, promise, cbCalls, processError, browser,
                 closeCalls, initPc>>
  /\ UNCHANGED <<pagePc, elapsed, startedAt>>
  /\ UNCHANGED <<ffmpeg, fired, timer, inflight, frames, stdinEnds, wroteAfterEnd, misses>>

\* page.$ settles.  With the element: spawn ffmpeg, setInterval, the three
\* handlers.  Without it (null) or on a rejection startRecording throws.
QueryDone ==
  /\ srPc = "query"
  /\ \/ /\ browser # "closed"
        /\ srPc' = "done"
        /\ ffmpeg' = "running"
        /\ timer' = "active"
     \/ /\ srPc' = "threw"
        /\ UNCHANGED <<ffmpeg, timer>>
  /\ UNCHANGED <<nodeVars, pageVars>>
  /\ UNCHANGED <<fired, inflight, frames, stdinEnds, wroteAfterEnd, misses>>

\* A timer callback that ends stdin whenever it stops capturing.
ShouldEndAlways(st, pe) == TRUE
\* A timer callback that never ends stdin.
ShouldEndNever(st, pe) == FALSE

\* A timer callback that keeps capturing after an encoder error.
CapturingDespiteError(st, pe) == st = "recording"

\* The conditions of the timer callback.
Capturing(st, pe) == st = "recording" /\ pe = NullError
ShouldEnd(st, pe) == st = "closed" /\ pe = NullError

\* One run of the setInterval callback up to its await or its end.
Tick ==
  /\ timer = "active"
  /\ IF Capturing(state, processError)
     THEN /\ frames + inflight < MaxFrames
          /\ inflight' = inflight + 1
          /\ UNCHANGED <<timer, stdinEnds>>
     ELSE /\ timer' = "cleared"
          /\ stdinEnds' = IF ShouldEnd(state, processError)
                          THEN stdinEnds + 1 ELSE stdinEnds
          /\ UNCHANGED inflight
  /\ UNCHANGED <<nodeVars, pageVars>>
  /\ UNCHANGED <<srPc, ffmpeg, fired, frames, wroteAfterEnd, misses>>

\* A capture loop that reports a failed screenshot as a stream error.
CaptureDonePropagate ==
  /\ inflight > 0
  /\ inflight' = inflight - 1
  /\ \/ /\ browser # "closed"
        /\ frames' = frames + 1
        /\ wroteAfterEnd' = (wroteAfterEnd \/ stdinEnds > 0)
        /\ UNCHANGED <<misses, processError, cbCalls, promise>>
     \/ /\ misses < MaxMisses
        /\ misses' = misses + 1
        /\ processError' = ErrorOf("StreamError")
        /\ CallCb(OutputPath(config.output), ErrorOf("StreamError"))
        /\ UNCHANGED <<frames, wroteAfterEnd>>
  /\ UNCHANGED <<userConfig, config, state, browser, closeCalls, initPc>>
  /\ UNCHANGED pageVars
  /\ UNCHANGED <<srPc, ffmpeg, fired, timer, stdinEnds>>

\* An awaited screenshot settles: the buffer is written, or the catch ignores
\* the rejection.
CaptureDone ==
  /\ inflight > 0
  /\ inflight' = inflight - 1
  /\ \/ /\ browser # "closed"
        /\ frames' = frames + 1
        /\ wroteAfterEnd' = (wroteAfterEnd \/ stdinEnds > 0)
        /\ UNCHANGED misses
     \/ /\ misses < MaxMisses
        /\ misses' = misses + 1
        /\ UNCHANGED <<frames, wroteAfterEnd>>
  /\ UNCHANGED <<nodeVars, pageVars>>
  /\ UNCHANGED <<srPc, ffmpeg, fired, timer, stdinEnds>>

\* ffmpegProcess.on("close", ...)
OnClose ==
  IF processError # NullError
  THEN UNCHANGED <<processError, cbCalls, promise>>
  ELSE /\ CallCb(OutputPath(config.output), NullError)
       /\ UNCHANGED processError

\* ffmpegProcess.on("error", ...) and ffmpegProcess.stdin.on("error", ...)
OnError(error) ==
  IF processError # NullError
  THEN UNCHANGED <<processError, cbCalls, promise>>
  ELSE /\ processError' = error
       /\ CallCb(OutputPath(config.output), error)

\* The encoder process has ended and its streams are closed.
EncoderClose ==
  /\ ffmpeg = "running"
  /\ "close" \notin fired
  /\ fired' = fired \cup {"close"}
  /\ OnClose
  /\ UNCHANGED <<userConfig, config, state, browser, closeCalls, initPc>>
  /\ UNCHANGED pageVars
  /\ UNCHANGED <<srPc, ffmpeg, timer, inflight, frames, stdinEnds, wroteAfterEnd, misses>>

\* The encoder process could not be spawned or failed.
EncoderError ==
  /\ ffmpeg = "running"
  /\ fired \cap {"close", "error"} = {}
  /\ fired' = fired \cup {"error"}
  /\ OnError(ErrorOf("ProcessError"))
  /\ UNCHANGED <<userConfig, config, state, browser, closeCalls, initPc>>
  /\ UNCHANGED pageVars
  /\ UNCHANGED <<srPc, ffmpeg, timer, inflight, frames, stdinEnds, wroteAfterEnd, misses>>

\* A write to, or the end of, the encoder's stdin failed.
StdinError ==
  /\ ffmpeg = "running"
  /\ fired \cap {"close", "stdinError"} = {}
  /\ fired' = fired \cup {"stdinError"}
  /\ OnError(ErrorOf("StreamError"))
  /\ UNCHANGED <<userConfig, config, state, browser, closeCalls, initPc>>
  /\ UNCHANGED pageVars
  /\ UNCHANGED <<srPc, ffmpeg, timer, inflight, frames, stdinEnds, wroteAfterEnd, misses>>

\* ------------------------------------------------------------ specification
Next ==
  \/ Launch
  \/ PageSetup
  \/ ReadTrace
  \/ SetContentSettle
  \/ PageConstruct
  \/ PageStart
  \/ ClockAdvance
  \/ PageTimeout
  \/ PageFinish
  \/ DeliverStart
  \/ DeliverFinish
  \/ DeliverConsole
  \/ ConsoleOther
  \/ BrowserClosed
  \/ QueryDone
  \/ Tick
  \/ CaptureDone
  \/ EncoderClose
  \/ EncoderError
  \/ StdinError

Spec == Init /\ [][Next]_vars

\* The timer callback keeps being scheduled while the interval is set.
LiveSpec == Spec /\ WF_vars(Tick)

\* ------------------------------------------------------------------ claims
\* The outcome a cb call gives a pending promise.
OutcomeOf(call) ==
  IF call.error = NullError
  THEN [status |-> "resolved", file |-> call.file, error |-> NullError]
  ELSE [status |-> "rejected", file |-> <<>>, error |-> call.error]

Latched == {i \in 1..Len(cbCalls) : cbCalls[i].error.kind \in {"ProcessError", "StreamError"}}

\* C1: the promise is pending until the first cb call and from then on holds
\* the outcome of that first call, whatever later calls say.
C1_FirstWriteWins ==
  IF cbCalls = <<>> THEN promise = Pending ELSE promise = OutcomeOf(Head(cbCalls))

\* C1 witness: a failure was written first, a success after it.
C1_Witness ==
  /\ Len(cbCalls) >= 2
  /\ cbCalls[1].error # NullError
  /\ cbCalls[Len(cbCalls)].error = NullError
  /\ promise.status = "rejected"

\* C2 (as claimed): config.cb is invoked at most once in a run.
C2_CbAtMostOnce == Len(cbCalls) <= 1

\* C3 (as claimed): the state never goes back: closed stays closed, and
\* recording never becomes idle.
C3_Monotonic ==
  [][/\ state = "closed" => state' = "closed"
     /\ state = "recording" => state' # "idle"]_vars

\* C4: a detected marker message with no result yet, in idle or recording,
\* closes the state, calls browser.close() and rejects the promise with the
\* message; a promise rejected with a console message keeps that outcome.
C4_ConsoleErrorWins ==
  [][/\ ( /\ "console" \in channel
          /\ "console" \notin channel'
          /\ browser' # "closed"
          /\ cbCalls = <<>>
          /\ state \in {"idle", "recording"} )
        => /\ state' = "closed"
           /\ closeCalls' = closeCalls + 1
           /\ promise' = [status |-> "rejected", file |-> <<>>,
                          error |-> StringError(MarkerMsg.text)]
     /\ (promise.status = "rejected" /\ promise.error.kind = "string")
        => promise' = promise]_vars

\* C4 witness: the console error was reported first, the encoder's close
\* reported a success after it, and the run is still a failure.
C4_Witness ==
  /\ Len(cbCalls) >= 2
  /\ cbCalls[1].error = StringError(MarkerMsg.text)
  /\ cbCalls[2].error = NullError
  /\ promise.status = "rejected"

SetupKinds == {"LaunchError", "PageError", "ENOENT", "SyntaxError"}

\* C5: every failure of init is reported through cb, and after a failure to
\* launch, to set up the page, to read or to parse the trace the promise is
\* rejected with it, the state is idle, no encoder runs and no timer is set.
C5_SetupFailure ==
  /\ initPc = "failed" => cbCalls # <<>>
  /\ (cbCalls # <<>> /\ Head(cbCalls).error.kind \in SetupKinds)
     => /\ initPc = "failed"
        /\ promise = [status |-> "rejected", file |-> <<>>,
                      error |-> Head(cbCalls).error]
        /\ Len(cbCalls) = 1
        /\ state = "idle"
        /\ srPc = "none"
        /\ ffmpeg = "none"
        /\ timer = "none"

\* C5 witness: the trace did not parse.
C5_Witness ==
  /\ initPc = "failed"
  /\ cbCalls = <<[file |-> <<>>, error |-> ErrorOf("SyntaxError")]>>
  /\ browser = "open"

\* C6: a step that calls stdin.end() is taken in state closed and is the
\* first such step of the run.
C6_EndOnceWhenClosed ==
  [][stdinEnds' # stdinEnds => (state = "closed" /\ stdinEnds = 0 /\ stdinEnds' = 1)]_vars

\* C6 witness: the timer callback ended stdin in state closed and cleared
\* the timer.
C6_Witness == stdinEnds = 1 /\ timer = "cleared" /\ state = "closed"

\* C7: once the state is closed with the timer running and no error latched,
\* the timer callback ends stdin unless an encoder error is latched first;
\* and the encoder's close, with no error latched and no result yet, resolves
\* the promise with the absolute output path.
C7_SuccessPath ==
  /\ (state = "closed" /\ timer = "active" /\ processError = NullError)
       ~> (stdinEnds >= 1 \/ processError # NullError)
  /\ [][("close" \notin fired /\ "close" \in fired'
         /\ processError = NullError /\ cbCalls = <<>>)
        => /\ promise'.status = "resolved"
           /\ promise'.error = NullError
           /\ IsAbsolute(promise'.file)
           /\ promise'.file[Len(promise'.file)] = config.output[Len(config.output)]
           /\ IsAbsolute(config.output) => promise'.file = config.output
           /\ cbCalls' = <<[file |-> promise'.file, error |-> NullError]>>]_vars

\* C7 witness: finish was received, stdin ended, the encoder closed and the
\* run resolved with a relative output made absolute.
C7_Witness ==
  /\ pagePc = "finished"
  /\ stdinEnds = 1
  /\ "close" \in fired
  /\ ~IsAbsolute(config.output)
  /\ promise = [status |-> "resolved", file |-> Cwd \o config.output,
                error |-> NullError]

\* A field of the caller's config when supplied, the default otherwise.
SuppliedOr(o, d) == IF o # {} THEN ValueOf(o) ELSE d

\* C8 (as claimed): each field of the effective configuration is the
\* caller's value when one was supplied and the default otherwise.
C8_EffectiveConfig ==
  /\ config.fps = SuppliedOr(userConfig.fps, 15)
  /\ config.headless = SuppliedOr(userConfig.headless, TRUE)
  /\ config.input = SuppliedOr(userConfig.input, <<>>)
  /\ config.output = SuppliedOr(userConfig.output, <<"rrvideo-output.mp4">>)
  /\ config.rrwebPlayer = SuppliedOr(userConfig.rrwebPlayer, EmptyProps)

\* C9 (as claimed): onReplayStart is called at once with autoPlay, and
\* otherwise exactly when the configured startDelayTime has elapsed, 1000 ms
\* when none is configured.
C9_StartDelay ==
  startedAt # -1 =>
    startedAt = IF TruthyBool(config.rrwebPlayer.autoPlay) THEN 0
                ELSE SuppliedOr(config.rrwebPlayer.startDelayTime, 1000)

\* C10 (as claimed): once an encoder or stream error has been latched, no
\* later step calls stdin.end().
C10_NoEndAfterError == [][Latched # {} => stdinEnds' = stdinEnds]_vars

\* C11 (as claimed): no buffer is written to the encoder's stdin after
\* stdin.end() was called.
C11_NoWriteAfterEnd == ~wroteAfterEnd

\* C12 (as claimed): once an encoder or stream error has been latched, a
\* later 'close', 'error' or stdin 'error' event neither calls cb nor changes
\* processError.
C12_LaterEventsDiscarded ==
  [][(Latched # {} /\ fired' # fired)
     => (cbCalls' = cbCalls /\ processError' = processError)]_vars

\* C13: a screenshot that throws is only skipped: the state, processError,
\* the cb calls, the promise, the timer, the encoder's stdin and the browser
\* stay as they are.
C13_CaptureMissSkipped ==
  [][(inflight' < inflight /\ frames' = frames)
     => UNCHANGED <<state, processError, cbCalls, promise, timer, stdinEnds,
                    wroteAfterEnd, fired, browser, closeCalls>>]_vars

\* C13 witness: every capture so far has failed, and the run is still
\* recording with its timer set and no result.
C13_Witness ==
  /\ misses = MaxMisses
  /\ frames = 0
  /\ state = "recording"
  /\ timer = "active"
  /\ processError = NullError
  /\ cbCalls = <<>>

\* The state has left recording or an encoder error is latched.
LeftRecording == state # "recording" \/ processError # NullError

\* C14: with the timer set, once the state has left recording or an error is
\* latched it stays so, no capture is started any more, and the tick that
\* ends stdin clears the timer; a cleared timer stays cleared and no tick
\* runs after it.
C14_PromptCancel ==
  [][/\ (timer = "active" /\ LeftRecording)
        => /\ state' # "recording" \/ processError' # NullError
           /\ inflight' <= inflight
           /\ stdinEnds' # stdinEnds => timer' = "cleared"
     /\ timer = "cleared"
        => /\ timer' = "cleared"
           /\ inflight' <= inflight
           /\ stdinEnds' = stdinEnds]_vars

\* C14 witness: an encoder error was latched while recording and the next
\* tick cleared the timer without ending stdin.
C14_Witness ==
  /\ timer = "cleared"
  /\ state = "recording"
  /\ processError # NullError
  /\ stdinEnds = 0

\* C15 (as claimed): browser.close() is called at most once, once in a run
\* that reached closed, and once when init failed after the launch.
C15_ReleasedOnce ==
  /\ closeCalls <= 1
  /\ state = "closed" => closeCalls = 1
  /\ (initPc = "failed" /\ browser # "none") => closeCalls = 1

\* C16 (as claimed): when the run is rejected with an encoder or stream
\* error, the browser has been closed and the state is closed.
C16_TeardownOnEncoderFailure ==
  (promise.status = "rejected" /\ promise.error.kind \in {"ProcessError", "StreamError"})
    => (state = "closed" /\ closeCalls >= 1)

\* This step handles the 'console' event of the script's marker message.
MarkerHandled == "console" \in channel /\ "console" \notin channel' /\ browser' # "closed"
\* This step handles a call of the exposed onReplayFinish.
FinishHandled == "finish" \in channel /\ "finish" \notin channel' /\ browser' # "closed"

\* C17: the error message that begins with the marker closes the state,
\* calls browser.close(), clears processError and reports its text; no other
\* step reports a console text or resets processError, and browser.close()
\* is called for nothing but that message and the finish signal.
C17_MarkerOnly ==
  [][/\ MarkerHandled
        => /\ state' = "closed"
           /\ closeCalls' = closeCalls + 1
           /\ processError' = NullError
           /\ cbCalls' = Append(cbCalls, [file |-> <<>>,
                                          error |-> StringError(MarkerMsg.text)])
     /\ ~MarkerHandled
        => /\ closeCalls' # closeCalls => FinishHandled
           /\ state' = "closed" /\ state # "closed" => FinishHandled
           /\ processError' = NullError => processError = NullError
           /\ \A i \in 1..Len(cbCalls') :
                cbCalls'[i].error.kind = "string" => i <= Len(cbCalls)]_vars

\* C17 witness: the marker message was handled in state idle.
C17_Witness ==
  /\ cbCalls = <<[file |-> <<>>, error |-> StringError(MarkerMsg.text)]>>
  /\ state = "closed"
  /\ closeCalls = 1
  /\ srPc = "none"

\* C18 (as claimed): no reported error is a bare string, and none carries a
\* text that still begins with the marker.
C18_SuffixReported ==
  \A i \in 1..Len(cbCalls) :
    /\ cbCalls[i].error.kind # "string"
    /\ IndexOf(cbCalls[i].error.text, Marker) # 0

\* C19 (as claimed): a success is reported only in state closed, after
\* stdin.end() was called.
C19_SuccessOnlyWhenClosed ==
  [][(Len(cbCalls') > Len(cbCalls) /\ cbCalls'[Len(cbCalls')].error = NullError)
     => (state = "closed" /\ stdinEnds >= 1)]_vars

\* C20 (as claimed): when startRecording has thrown and the run can take no
\* further step, a result has been reported.
C20_StartReported ==
  (srPc = "threw" /\ ~ENABLED Next) => cbCalls # <<>>

====
